---- MODULE Spec2Model ----
(***************************************************************************)
(* Model of finetune.py: the sequence assembler of train_gpt (pure         *)
(* operators, specification SpecAsm) and the run of main / train_gpt /     *)
(* train_autoencoder (specification Spec).                                 *)
(* Grids are functions over 0-based index ranges, as in the source.        *)
(***************************************************************************)
EXTENDS Integers, Sequences, FiniteSets, TLC

\* ------------------------------------------------------------------ bounds
MaxBatch == 2
MaxTextLen == 5
MaxAudioLen == 4
NumVq == 2
NumAudioClass == 3

\* --------------------------------------------------------------- constants
IGNORE_TOKEN_ID == -100
SPEAKER_TOKEN_ID == 7
AUDIO_EOS_TOKEN_ID == 0
AUDIO_PAD_TOKEN_ID == AUDIO_EOS_TOKEN_ID
TEXT_PAD_TOKEN_ID == 9

\* run bounds
MaxEpochs == 2
BatchesPerEpoch == 2
MaxCkpts == 1
MaxLoss == 2

\* loss += 0.01 * mse_loss: logged values are kept in hundredths
LossScale == 100

VARIABLES
  batch,            \* the collated batch handed to the assembler
  asm,              \* the grids the assembler built from it
  route,            \* time positions the loss router scores against each other
  args,             \* parsed command line of main
  pc,               \* position of the run
  error,            \* the exception that aborted the run, if any
  modules,          \* per module object: training flag, requires_grad, parameter value
  encoder_ref,      \* object the name `encoder` is bound to inside train_autoencoder
  speaker_embeds,   \* speaker embedding table (speaker -> tensor), or None
  optimizer,        \* parameter set of the optimizer, or Unbound
  train_params,     \* train_params list of the training function
  epoch,            \* completed epochs
  batch_idx,        \* batches done in the current epoch
  lr_steps,         \* calls of lr_scheduler.step()
  meters,           \* last value logged under each meter name
  events,           \* steps executed since the current epoch began, in order
  saved             \* files written by main's save step

asmVars == <<batch, asm, route>>
runVars == <<args, pc, error, modules, encoder_ref, speaker_embeds, optimizer,
             train_params, epoch, batch_idx, lr_steps, meters, events, saved>>
vars == <<batch, asm, route, args, pc, error, modules, encoder_ref, speaker_embeds,
          optimizer, train_params, epoch, batch_idx, lr_steps, meters, events,
          saved>>

\* ------------------------------------------------------------ pure helpers
RECURSIVE SumTo(_, _)
\* sum of f[0] .. f[n-1]  (torch.Tensor.sum over one row)
SumTo(f, n) == IF n = 0 THEN 0 ELSE f[n - 1] + SumTo(f, n - 1)

RECURSIVE MaxOver(_, _, _)
\* maximum of f[1][k] .. f[n][k] for a sequence of records
MaxOver(rows, k, n) ==
  IF n = 0 THEN 0
  ELSE LET m == MaxOver(rows, k, n - 1)
       IN IF rows[n][k] > m THEN rows[n][k] ELSE m

\* ------------------------------------------------- dataset and collator
\* One dataset example: valid text length, valid audio length.
Examples == [tlen : 1..MaxTextLen, alen : 0..MaxAudioLen]

\* token id of a transcript at position j
TextTok(seed, i, j) ==
  LET k == (seed + i + j) % 3
  IN IF k = 0 THEN SPEAKER_TOKEN_ID ELSE 10 + k

\* AudioCollator: pad every row to the longest row of the batch; masks are
\* left-aligned prefixes of ones.
Collate(rows, seed) ==
  LET B == Len(rows)
      TL == MaxOver(rows, "tlen", B)
      AL == MaxOver(rows, "alen", B)
  IN [ batch_size |-> B,
       text_len |-> TL,
       audio_len |-> AL,
       seed |-> seed,
       text_input_ids |->
         [i \in 0..B-1 |-> [j \in 0..TL-1 |->
            IF j < rows[i+1].tlen THEN TextTok(seed, i, j) ELSE TEXT_PAD_TOKEN_ID]],
       text_attention_mask |->
         [i \in 0..B-1 |-> [j \in 0..TL-1 |-> IF j < rows[i+1].tlen THEN 1 ELSE 0]],
       audio_attention_mask |->
         [i \in 0..B-1 |-> [t \in 0..AL-1 |-> IF t < rows[i+1].alen THEN 1 ELSE 0]] ]

\* content variants of the dataset
Seeds == {0, 1}

Batches ==
  { Collate(rows, seed) :
      rows \in UNION { [1..b -> Examples] : b \in 1..MaxBatch },
      seed \in Seeds }

\* quantize(dvae_decoder.vq_layer.quantizer, latents): one code per
\* (row, frame, codebook), also at padded frames.
Quantize(b) ==
  [i \in 0..b.batch_size-1 |-> [t \in 0..b.audio_len-1 |-> [q \in 0..NumVq-1 |->
     (b.seed + i + t + q + 1) % NumAudioClass]]]

\* --------------------------------------------------- sequence assembler
\* dvae_audio_input_ids[~audio_attention_mask.bool()] = AUDIO_PAD_TOKEN_ID
PadAudioIds(ids, mask, B, AL) ==
  [i \in 0..B-1 |-> [t \in 0..AL-1 |-> [q \in 0..NumVq-1 |->
     IF mask[i][t] = 0 THEN AUDIO_PAD_TOKEN_ID ELSE ids[i][t][q]]]]

\* faulty variant: the added column is ones instead of zeros
ExtendMaskOnes(mask, B, AL) ==
  [i \in 0..B-1 |-> [t \in 0..AL |-> IF t < AL THEN mask[i][t] ELSE 1]]

\* torch.cat([audio_attention_mask, zeros((batch_size, 1))], dim=1)
ExtendMask(mask, B, AL) ==
  [i \in 0..B-1 |-> [t \in 0..AL |-> IF t < AL THEN mask[i][t] ELSE 0]]

\* torch.cat([dvae_audio_input_ids, AUDIO_PAD_TOKEN_ID * ones(...)], dim=1)
ExtendIds(ids, B, AL) ==
  [i \in 0..B-1 |-> [t \in 0..AL |-> [q \in 0..NumVq-1 |->
     IF t < AL THEN ids[i][t][q] ELSE AUDIO_PAD_TOKEN_ID]]]

\* indices = audio_attention_mask.int().sum(dim=1)
Indices(mask, B, AL) == [i \in 0..B-1 |-> SumTo(mask[i], AL)]

\* faulty variant: the marker overwrites the last valid frame (index count - 1)
MarkMaskOffByOne(ext, indices, B) ==
  [i \in 0..B-1 |->
     [ext[i] EXCEPT ![IF indices[i] = 0 THEN Cardinality(DOMAIN ext[i]) - 1
                      ELSE indices[i] - 1] = 1]]

\* faulty variant: the marker goes to the fixed last column for every row
MarkMaskFixedColumn(ext, indices, B) ==
  [i \in 0..B-1 |-> [ext[i] EXCEPT ![Cardinality(DOMAIN ext[i]) - 1] = 1]]

\* for i in range(batch_size): extended_audio_attention_mask[i, indices[i]] = 1
MarkMask(ext, indices, B) ==
  [i \in 0..B-1 |-> [ext[i] EXCEPT ![indices[i]] = 1]]

\* for i in range(batch_size): extended_audio_input_ids[i, indices[i]] = AUDIO_EOS_TOKEN_ID
MarkIds(ext, indices, B) ==
  [i \in 0..B-1 |-> [ext[i] EXCEPT ![indices[i]] = [q \in 0..NumVq-1 |-> AUDIO_EOS_TOKEN_ID]]]

\* input_ids = cat([text_input_ids.unsqueeze(-1).repeat(1, 1, num_vq), extended ids], dim=1)
CombineIds(text_ids, ext_ids, B, TL, AL) ==
  [i \in 0..B-1 |-> [p \in 0..TL+AL |-> [q \in 0..NumVq-1 |->
     IF p < TL THEN text_ids[i][p] ELSE ext_ids[i][p - TL][q]]]]

\* attention_mask = cat([text_attention_mask, extended_audio_attention_mask], dim=1)
CombineMask(text_mask, ext_mask, B, TL, AL) ==
  [i \in 0..B-1 |-> [p \in 0..TL+AL |->
     IF p < TL THEN text_mask[i][p] ELSE ext_mask[i][p - TL]]]

\* faulty variant: only the first codebook slot of a masked position is ignored
MakeLabelsFirstSlot(input_ids, attention_mask, B, W) ==
  [i \in 0..B-1 |-> [p \in 0..W-1 |-> [q \in 0..NumVq-1 |->
     IF attention_mask[i][p] = 0 /\ q = 0 THEN IGNORE_TOKEN_ID ELSE input_ids[i][p][q]]]]

\* labels = input_ids.clone(); labels[~attention_mask.bool()] = IGNORE_TOKEN_ID
MakeLabels(input_ids, attention_mask, B, W) ==
  [i \in 0..B-1 |-> [p \in 0..W-1 |-> [q \in 0..NumVq-1 |->
     IF attention_mask[i][p] = 0 THEN IGNORE_TOKEN_ID ELSE input_ids[i][p][q]]]]

\* The assembling part of one iteration of train_gpt's batch loop.
AssembleBatch(b) ==
  LET B == b.batch_size
      TL == b.text_len
      AL == b.audio_len
      dvae_ids == PadAudioIds(Quantize(b), b.audio_attention_mask, B, AL)
      indices == Indices(b.audio_attention_mask, B, AL)
      ext_mask == MarkMask(ExtendMask(b.audio_attention_mask, B, AL), indices, B)
      ext_ids == MarkIds(ExtendIds(dvae_ids, B, AL), indices, B)
      input_ids == CombineIds(b.text_input_ids, ext_ids, B, TL, AL)
      attention_mask == CombineMask(b.text_attention_mask, ext_mask, B, TL, AL)
  IN [ indices |-> indices,
       extended_audio_attention_mask |-> ext_mask,
       extended_audio_input_ids |-> ext_ids,
       input_ids |-> input_ids,
       attention_mask |-> attention_mask,
       width |-> TL + AL + 1,
       labels |-> MakeLabels(input_ids, attention_mask, B, TL + AL + 1) ]

NoAsm == [width |-> 0]

\* ----------------------------------------------------------- loss router
\* python index into a dimension of size n: negative counts from the end,
\* a slice bound is clamped to 0..n
SliceBound(i, n) ==
  LET j == IF i < 0 THEN i + n ELSE i
  IN IF j < 0 THEN 0 ELSE IF j > n THEN n ELSE j

\* positions x[start:stop] selects from a dimension of size n, in order
PySlice(start, stop, n) ==
  LET a == SliceBound(start, n)
      b == SliceBound(stop, n)
  IN [k \in 1..(IF b > a THEN b - a ELSE 0) |-> a + k - 1]

\* text_hidden_states = hidden_states[:, :text_len-1]
TextHiddenSlice(TL, W) == PySlice(0, TL - 1, W)

\* faulty variant: the audio hidden states start at the first audio position
AudioHiddenSliceUnshifted(TL, W) == PySlice(TL, W, W)

\* audio_hidden_states = hidden_states[:, text_len-1:-1]
AudioHiddenSlice(TL, W) == PySlice(TL - 1, -1, W)

\* labels[:, text_len:]
AudioLabelSlice(TL, W) == PySlice(TL, W, W)

\* labels[:, 1:text_len, 0]
TextLabelSlice(TL, W) == PySlice(1, TL, W)

\* the two loss_fn calls: the k-th hidden state of a slice is scored against
\* the k-th label of the matching slice
RouteSlices(TL, W) ==
  [ text_hidden |-> TextHiddenSlice(TL, W),
    text_labels |-> TextLabelSlice(TL, W),
    audio_hidden |-> AudioHiddenSlice(TL, W),
    audio_labels |-> AudioLabelSlice(TL, W) ]

NoRoute == [text_hidden |-> <<>>]

\* ------------------------------------------------------------ run: data
GptModes == {"gpt_speaker", "gpt", "speaker"}
AutoencoderModes == {"autoencoder", "encoder", "decoder"}
TrainModule == GptModes \cup AutoencoderModes
DecoderType == {"decoder", "dvae"}

\* module objects main holds, and the encoder train_autoencoder constructs
MainModules == {"gpt", "decoder_encoder", "decoder_decoder", "dvae_encoder", "dvae_decoder"}
Objects == MainModules \cup {"local_encoder"}

\* dataset.speakers
DatasetSpeakers == {"A", "B"}
\* values of torch.randn for a fresh vector, and of vectors stored in an archive
RandVals == {0, 1}
ArchiveVals == {3}
\* chat.pretrain_models['spk_stat'].chunk(2)
SpkStat == [std |-> 2, mean |-> 1]

EmptyDict == <<>>
None == "None"
\* the name `optimizer` before any assignment to it
Unbound == {"<unbound>"}

\* loss terms a forward pass can yield: audio CE, text CE, mel MSE
LossCases == { <<a, 1, 3>> : a \in 1..MaxLoss }

\* argparse: the options of main the run depends on
CommandLines ==
  [train_module : TrainModule,
   decoder_type : DecoderType,
   train_text : BOOLEAN,
   epochs : 1..MaxEpochs,
   ckpt : { c \in SUBSET MainModules : Cardinality(c) <= MaxCkpts },
   archive : UNION { [S -> ArchiveVals] : S \in SUBSET DatasetSpeakers }]

\* a meter nothing was logged to since logger.reset()
NotLogged == -1
NoMeters == [loss |-> NotLogged, mse_loss |-> NotLogged, audio_loss |-> NotLogged,
             text_loss |-> NotLogged]
\* the value train_autoencoder returns in place of a speaker table
NoneTable == [x \in {None} |-> None]

\* python dict union  a | b : entries of b override
DictMerge(a, b) ==
  [k \in DOMAIN a \cup DOMAIN b |-> IF k \in DOMAIN b THEN b[k] ELSE a[k]]

\* encoder / decoder handed to train_autoencoder
SelectedEncoder(a) == IF a.decoder_type = "decoder" THEN "decoder_encoder" ELSE "dvae_encoder"
SelectedDecoder(a) == IF a.decoder_type = "decoder" THEN "decoder_decoder" ELSE "dvae_decoder"

\* module.train().requires_grad_()  /  module.eval().requires_grad_(False)
SetTrain(m) == [m EXCEPT !.training = TRUE, !.requires_grad = TRUE]
SetFrozen(m) == [m EXCEPT !.training = FALSE, !.requires_grad = FALSE]
\* one optimizer update of a parameter value
Stepped(m) == [m EXCEPT !.value = <<m.value[1], m.value[2] + 1>>]

\* ----------------------------------------------------------- run: main
\* main up to the load step: ChatTTS.Chat().load_models(), the two DVAEEncoder
\* constructions, argument parsing.
Init ==
  /\ batch = [batch_size |-> 0]
  /\ asm = NoAsm
  /\ route = NoRoute
  /\ args \in CommandLines
  /\ pc = "load"
  /\ error = None
  /\ \E pretrained_training \in BOOLEAN :
       modules = [o \in Objects |->
         IF o \in {"decoder_encoder", "dvae_encoder"}
           THEN [training |-> TRUE, requires_grad |-> TRUE, value |-> <<"init", 0>>]
         ELSE IF o = "local_encoder"
           THEN [training |-> FALSE, requires_grad |-> FALSE, value |-> <<"unbuilt", 0>>]
         ELSE [training |-> pretrained_training, requires_grad |-> TRUE,
               value |-> <<"pretrained", 0>>]]
  /\ encoder_ref = None
  /\ speaker_embeds = EmptyDict
  /\ optimizer = Unbound
  /\ train_params = {}
  /\ epoch = 0
  /\ batch_idx = 0
  /\ lr_steps = 0
  /\ meters = NoMeters
  /\ events = <<>>
  /\ saved = EmptyDict

\* load_state_dict for every checkpoint path given, np.load of the archive
LoadModels ==
  /\ pc = "load"
  /\ modules' = [o \in Objects |->
       IF o \in args.ckpt THEN [modules[o] EXCEPT !.value = <<"ckpt", 0>>] ELSE modules[o]]
  /\ speaker_embeds' = [s \in DOMAIN args.archive |->
       [val |-> args.archive[s], requires_grad |-> FALSE, src |-> "archive"]]
  /\ pc' = "train"
  /\ UNCHANGED <<asmVars, events, args, error, encoder_ref, optimizer, train_params, epoch,
                 batch_idx, lr_steps, meters, saved>>

\* an exception while loading or at a batch: nothing catches it
RaiseException ==
  /\ pc \in {"load", "batch"}
  /\ pc' = "aborted"
  /\ error' = "injected"
  /\ UNCHANGED <<asmVars, events, args, modules, encoder_ref, speaker_embeds, optimizer,
                 train_params, epoch, batch_idx, lr_steps, meters, saved>>

\* ------------------------------------------------------ run: train_gpt
CodecModules == {"decoder_decoder", "decoder_encoder", "dvae_decoder", "dvae_encoder"}

\* faulty variant: gpt is put in training mode whatever the mode
GptFlagsAlwaysTrain(m, mode) == SetTrain(m)

\* gpt.eval().requires_grad_(False) if SPEAKER else gpt.train().requires_grad_()
GptFlags(m, mode) == IF mode = "speaker" THEN SetFrozen(m) ELSE SetTrain(m)

\* the four codec modules are frozen, gpt follows the mode
GptStageModules(mods, mode) ==
  [o \in Objects |->
     IF o \in CodecModules THEN SetFrozen(mods[o])
     ELSE IF o = "gpt" THEN GptFlags(mods[o], mode)
     ELSE mods[o]]

\* speaker_embed.data = speaker_embed.data * std + mean
Normalize(e) == [e EXCEPT !.val = e.val * SpkStat.std + SpkStat.mean]

\* {speaker: randn(768, requires_grad=...) for speaker in dataset.speakers} | speaker_embeds,
\* then the normalisation loop over all values of the merged table
BuildSpeakerEmbeds(supplied, mode, rand) ==
  LET fresh == [s \in DatasetSpeakers |->
                  [val |-> rand[s],
                   requires_grad |-> mode \in {"gpt_speaker", "speaker"},
                   src |-> "fresh"]]
      merged == DictMerge(fresh, supplied)
  IN [s \in DOMAIN merged |-> Normalize(merged[s])]

\* train_gpt from its first line to the construction of the loader and logger
SetupGpt ==
  /\ pc = "train"
  /\ args.train_module \in GptModes
  /\ modules' = GptStageModules(modules, args.train_module)
  /\ \E rand \in [DatasetSpeakers -> RandVals] :
       LET table == BuildSpeakerEmbeds(speaker_embeds, args.train_module, rand)
       IN CASE args.train_module = "gpt_speaker" ->
                 /\ speaker_embeds' = table
                 /\ train_params' = {"gpt"} \cup DOMAIN table
                 /\ optimizer' = {"gpt"} \cup DOMAIN table
                 /\ pc' = "epoch"
                 /\ error' = error
            [] args.train_module = "speaker" ->
                 /\ speaker_embeds' = table
                 /\ train_params' = DOMAIN table
                 /\ optimizer' = DOMAIN table
                 /\ pc' = "epoch"
                 /\ error' = error
            [] args.train_module = "gpt" ->
                 \* no optimizer is assigned: CosineAnnealingLR(optimizer, ...) raises
                 /\ speaker_embeds' = [s \in DOMAIN speaker_embeds |-> table[s]]
                 /\ train_params' = {"gpt"}
                 /\ optimizer' = Unbound
                 /\ pc' = "aborted"
                 /\ error' = "UnboundLocalError"
  /\ UNCHANGED <<asmVars, events, args, encoder_ref, epoch, batch_idx, lr_steps, meters, saved>>

\* faulty variant: the learning-rate schedule is advanced after every batch
GptBatchStepsSchedPerBatch ==
  <<"forward", "zero_grad", "backward", "clip_grad_norm", "step", "lr_step">>

\* statements of one iteration of train_gpt's batch loop, in program order:
\* gpt.get_emb .. loss (forward), optimizer.zero_grad(), loss.backward(),
\* clip_grad_norm_(train_params, 1.0), optimizer.step()
GptBatchSteps == <<"forward", "zero_grad", "backward", "clip_grad_norm", "step">>

\* loss = audio_loss; loss += text_loss; loss += 0.01 * mse_loss: `loss` and
\* `audio_loss` name one tensor object and += updates it in place.
\* Returns the values of .item() at the logger calls, in hundredths.
RouteLoss(lc, train_text) ==
  LET heap0 == [audio_ce |-> lc[1] * LossScale,
                text_ce |-> lc[2] * LossScale,
                mse |-> lc[3] * LossScale]
      audio_loss == "audio_ce"
      loss == audio_loss
      heap1 == IF train_text THEN [heap0 EXCEPT ![loss] = @ + heap0["text_ce"]] ELSE heap0
      heap2 == [heap1 EXCEPT ![loss] = @ + (heap1["mse"] \div LossScale)]
  IN [loss |-> heap2[loss],
      audio_loss |-> heap2[audio_loss],
      text_loss |-> heap2["text_ce"],
      mse_loss |-> heap2["mse"]]

\* some leaf of the loss graph requires grad (else loss.backward() raises)
GptGraphRequiresGrad(spk) ==
  \/ modules["gpt"].requires_grad
  \/ \E s \in spk : speaker_embeds[s].requires_grad

\* one iteration of train_gpt's batch loop
TrainGptBatch ==
  /\ pc = "batch"
  /\ args.train_module \in GptModes
  /\ batch_idx < BatchesPerEpoch
  /\ \E spk \in (SUBSET DatasetSpeakers) \ {{}}, lc \in LossCases :
       LET r == RouteLoss(lc, args.train_text)
           text_logged == IF args.train_text THEN r.text_loss ELSE meters.text_loss
       IN IF GptGraphRequiresGrad(spk)
          THEN /\ modules' = [o \in Objects |->
                    IF o \in optimizer /\ modules[o].requires_grad
                      THEN Stepped(modules[o]) ELSE modules[o]]
               /\ speaker_embeds' = [s \in DOMAIN speaker_embeds |->
                    IF s \in optimizer /\ s \in spk /\ speaker_embeds[s].requires_grad
                      THEN [speaker_embeds[s] EXCEPT !.val = @ + 1]
                      ELSE speaker_embeds[s]]
               /\ meters' = [loss |-> r.loss, mse_loss |-> r.mse_loss,
                             audio_loss |-> r.audio_loss, text_loss |-> text_logged]
               /\ batch_idx' = batch_idx + 1
               /\ events' = events \o GptBatchSteps
               /\ UNCHANGED <<pc, error>>
          ELSE /\ meters' = [meters EXCEPT !.text_loss = text_logged]
               /\ events' = events \o SubSeq(GptBatchSteps, 1, 3)
               /\ pc' = "aborted"
               /\ error' = "RuntimeError"
               /\ UNCHANGED <<modules, speaker_embeds, batch_idx>>
  /\ UNCHANGED <<asmVars, args, encoder_ref, optimizer, train_params, epoch, lr_steps, saved>>

\* ------------------------------------------------ run: train_autoencoder
\* encoder = DVAEEncoder(**get_encoder_config(decoder.decoder)): the name is
\* rebound to a newly constructed object
AutoencoderEncoder(a) == "local_encoder"

\* the match on train_module: flags of encoder and decoder
AutoencoderModules(mods, mode, enc, dec) ==
  LET built == [mods EXCEPT ![enc] =
                  IF enc = "local_encoder"
                    THEN [training |-> TRUE, requires_grad |-> TRUE, value |-> <<"init_local", 0>>]
                    ELSE mods[enc]]
  IN [o \in Objects |->
        IF o = enc THEN (IF mode = "decoder" THEN SetFrozen(built[o]) ELSE SetTrain(built[o]))
        ELSE IF o = dec THEN (IF mode = "encoder" THEN SetFrozen(built[o]) ELSE SetTrain(built[o]))
        ELSE built[o]]

\* train_params of the match
AutoencoderParams(mode, enc, dec) ==
  CASE mode = "autoencoder" -> {enc, dec}
    [] mode = "encoder" -> {enc}
    [] mode = "decoder" -> {dec}

\* train_autoencoder from its first line to the construction of loader and logger
SetupAutoencoder ==
  /\ pc = "train"
  /\ args.train_module \in AutoencoderModes
  /\ LET enc == AutoencoderEncoder(args)
         dec == SelectedDecoder(args)
     IN /\ encoder_ref' = enc
        /\ modules' = AutoencoderModules(modules, args.train_module, enc, dec)
        /\ train_params' = AutoencoderParams(args.train_module, enc, dec)
        /\ optimizer' = AutoencoderParams(args.train_module, enc, dec)
  /\ pc' = "epoch"
  /\ UNCHANGED <<asmVars, events, args, error, speaker_embeds, epoch, batch_idx, lr_steps,
                 meters, saved>>

\* statements of one iteration of train_autoencoder's batch loop, in program
\* order: encoder .. loss_fn (forward), optimizer.zero_grad(), loss.backward(),
\* clip_grad_norm_(train_params, 1.0), optimizer.step()
AutoencoderBatchSteps == <<"forward", "zero_grad", "backward", "clip_grad_norm", "step">>

\* one iteration of train_autoencoder's batch loop
TrainAutoencoderBatch ==
  /\ pc = "batch"
  /\ args.train_module \in AutoencoderModes
  /\ batch_idx < BatchesPerEpoch
  /\ \E lc \in LossCases :
       meters' = [meters EXCEPT !.loss = lc[3] * LossScale]
  /\ modules' = [o \in Objects |->
       IF o \in optimizer /\ modules[o].requires_grad
         THEN Stepped(modules[o]) ELSE modules[o]]
  /\ batch_idx' = batch_idx + 1
  /\ events' = events \o AutoencoderBatchSteps
  /\ UNCHANGED <<asmVars, args, pc, error, encoder_ref, speaker_embeds, optimizer,
                 train_params, epoch, lr_steps, saved>>

\* ------------------------------------------------- run: epochs and save
\* for _epoch in range(epochs): logger.reset()
BeginEpoch ==
  /\ pc = "epoch"
  /\ epoch < args.epochs
  /\ meters' = NoMeters
  /\ events' = <<"reset">>
  /\ batch_idx' = 0
  /\ pc' = "batch"
  /\ UNCHANGED <<asmVars, args, error, modules, encoder_ref, speaker_embeds, optimizer,
                 train_params, epoch, lr_steps, saved>>

\* faulty variant: a checkpoint of gpt is written at the end of every epoch
EndEpochCheckpoint ==
  /\ pc = "batch"
  /\ batch_idx = BatchesPerEpoch
  /\ lr_steps' = lr_steps + 1
  /\ events' = Append(events, "lr_step")
  /\ epoch' = epoch + 1
  /\ pc' = "epoch"
  /\ saved' = [n \in {"gpt"} |-> modules["gpt"].value]
  /\ UNCHANGED <<asmVars, args, error, modules, encoder_ref, speaker_embeds, optimizer,
                 train_params, batch_idx, meters>>

\* the loader is exhausted: lr_scheduler.step()
EndEpoch ==
  /\ pc = "batch"
  /\ batch_idx = BatchesPerEpoch
  /\ lr_steps' = lr_steps + 1
  /\ events' = Append(events, "lr_step")
  /\ epoch' = epoch + 1
  /\ pc' = "epoch"
  /\ UNCHANGED <<asmVars, args, error, modules, encoder_ref, speaker_embeds, optimizer,
                 train_params, batch_idx, meters, saved>>

\* the training function returns: speaker_embeds = train(...)
ReturnTrain ==
  /\ pc = "epoch"
  /\ epoch = args.epochs
  /\ speaker_embeds' = IF args.train_module \in GptModes THEN speaker_embeds ELSE NoneTable
  /\ pc' = "save"
  /\ UNCHANGED <<asmVars, events, args, error, modules, encoder_ref, optimizer, train_params,
                 epoch, batch_idx, lr_steps, meters, saved>>

\* files main's match on train_module writes, with the values they hold
SavedFiles(a, mods, embeds) ==
  LET np_speaker_embeds == IF embeds = NoneTable THEN NoneTable
                           ELSE [s \in DOMAIN embeds |-> embeds[s].val]
      file(o) == [name |-> o, content |-> mods[o].value]
      enc == SelectedEncoder(a)
      dec == SelectedDecoder(a)
  IN CASE a.train_module = "gpt_speaker" ->
            {file("gpt"), [name |-> "speaker_embeds", content |-> np_speaker_embeds]}
       [] a.train_module = "gpt" -> {file("gpt")}
       [] a.train_module = "speaker" ->
            {[name |-> "speaker_embeds", content |-> np_speaker_embeds]}
       [] a.train_module = "autoencoder" -> {file(enc), file(dec)}
       [] a.train_module = "encoder" -> {file(enc)}
       [] a.train_module = "decoder" -> {file(dec)}

\* main after the training function returned: torch.save / np.savez
Save ==
  /\ pc = "save"
  /\ saved' = LET fs == SavedFiles(args, modules, speaker_embeds)
              IN [n \in {f.name : f \in fs} |-> (CHOOSE f \in fs : f.name = n).content]
  /\ pc' = "done"
  /\ UNCHANGED <<asmVars, events, args, error, modules, encoder_ref, speaker_embeds, optimizer,
                 train_params, epoch, batch_idx, lr_steps, meters>>

Next ==
  \/ LoadModels
  \/ RaiseException
  \/ SetupGpt
  \/ SetupAutoencoder
  \/ BeginEpoch
  \/ TrainGptBatch
  \/ TrainAutoencoderBatch
  \/ EndEpoch
  \/ ReturnTrain
  \/ Save

Spec == Init /\ [][Next]_vars

\* ---------------------------------------------------- specification SpecAsm
RunIdle ==
  /\ args = [train_module |-> None]
  /\ pc = "idle"
  /\ error = None
  /\ modules = EmptyDict
  /\ encoder_ref = None
  /\ speaker_embeds = EmptyDict
  /\ optimizer = Unbound
  /\ train_params = {}
  /\ epoch = 0
  /\ batch_idx = 0
  /\ lr_steps = 0
  /\ meters = NoMeters
  /\ events = <<>>
  /\ saved = EmptyDict

AsmInit == /\ batch \in Batches
           /\ asm = NoAsm
           /\ route = NoRoute
           /\ RunIdle

\* the batch body builds the combined sequence and slices hidden states and
\* labels for the two loss terms
Assemble == /\ asm = NoAsm
            /\ asm' = AssembleBatch(batch)
            /\ route' = RouteSlices(batch.text_len, batch.text_len + batch.audio_len + 1)
            /\ UNCHANGED <<batch, runVars>>

AsmNext == Assemble

SpecAsm == AsmInit /\ [][AsmNext]_vars

\* ------------------------------------------------- claims on the assembler
Assembled == asm # NoAsm
Rows == 0..batch.batch_size-1
TextValid(i) == SumTo(batch.text_attention_mask[i], batch.text_len)
AudioValid(i) == SumTo(batch.audio_attention_mask[i], batch.audio_len)
MaskSum(i) == SumTo(asm.attention_mask[i], asm.width)

\* C1: for every row of an assembled batch (masks are left-aligned prefixes),
\* the combined attention mask sums to text valid count + audio valid count + 1.
C1_MaskSum ==
  Assembled => \A i \in Rows : MaskSum(i) = TextValid(i) + AudioValid(i) + 1

\* an assembled batch with two rows of different valid lengths, one padded
C1_Witness ==
  /\ Assembled
  /\ batch.batch_size = 2
  /\ AudioValid(0) # AudioValid(1)
  /\ TextValid(0) # TextValid(1)
  /\ AudioValid(1) > 0

\* C2: for every row the end marker sits in the extended audio grid at the
\* index equal to the row's valid-frame count, which lies in 0..audio_len: the
\* extended mask is true exactly up to and including that index (so the marker
\* is per row, not in a fixed column) and every codebook slot there holds the
\* end-marker id.
C2_MarkerIndex ==
  Assembled =>
    \A i \in Rows :
      /\ asm.indices[i] = AudioValid(i)
      /\ asm.indices[i] \in 0..batch.audio_len
      /\ \A t \in 0..batch.audio_len :
           asm.extended_audio_attention_mask[i][t] = (IF t <= AudioValid(i) THEN 1 ELSE 0)
      /\ \A q \in 0..NumVq-1 :
           asm.extended_audio_input_ids[i][asm.indices[i]][q] = AUDIO_EOS_TOKEN_ID

\* an assembled batch holding a row without valid frames (marker at index 0)
\* and a row whose frames are all valid (marker in the added last column)
C2_Witness ==
  /\ Assembled
  /\ batch.batch_size = 2
  /\ batch.audio_len > 0
  /\ AudioValid(0) = 0 /\ asm.indices[0] = 0
  /\ AudioValid(1) = batch.audio_len /\ asm.indices[1] = batch.audio_len

\* C3: the label grid equals the combined id grid where the combined mask is
\* true and the ignore sentinel where it is false, in every codebook slot.
C3_Labels ==
  Assembled =>
    \A i \in Rows : \A p \in 0..asm.width-1 : \A q \in 0..NumVq-1 :
      asm.labels[i][p][q] =
        (IF asm.attention_mask[i][p] = 1 THEN asm.input_ids[i][p][q] ELSE IGNORE_TOKEN_ID)

\* an assembled batch with masked-out text and audio positions and a valid
\* audio position whose code is not the pad id
C3_Witness ==
  /\ Assembled
  /\ \E i \in Rows :
       /\ TextValid(i) < batch.text_len
       /\ AudioValid(i) + 1 < batch.audio_len
       /\ \E p \in batch.text_len..asm.width-1 :
            /\ asm.attention_mask[i][p] = 1
            /\ asm.labels[i][p][0] # AUDIO_PAD_TOKEN_ID

\* the batch of the end-to-end scenario
Scenario ==
  /\ batch.batch_size = 2
  /\ batch.text_len = 5 /\ batch.audio_len = 4
  /\ TextValid(0) = 5 /\ TextValid(1) = 3
  /\ AudioValid(0) = 4 /\ AudioValid(1) = 2

\* absolute position of the last true entry of row i's combined mask holds
\* the end marker
MarkerAt(i, p) ==
  /\ p = batch.text_len + asm.indices[i]
  /\ asm.attention_mask[i][p] = 1
  /\ \A q \in 0..NumVq-1 : asm.input_ids[i][p][q] = AUDIO_EOS_TOKEN_ID
  /\ \A r \in p+1..asm.width-1 : asm.attention_mask[i][r] = 0

\* C4 as stated: scenario batch gives length 10, markers at 9 and 7, and
\* combined-mask row sums 9 and 7.
C4_Original ==
  (Assembled /\ Scenario) =>
    /\ asm.width = 10
    /\ MarkerAt(0, 9) /\ MarkerAt(1, 7)
    /\ MaskSum(0) = 9 /\ MaskSum(1) = 7

\* C4 amended: scenario batch gives length 10, markers at absolute positions
\* 9 and 7, and combined-mask row sums 10 and 6.
C4_Scenario ==
  (Assembled /\ Scenario) =>
    /\ asm.width = 10
    /\ \A i \in Rows : DOMAIN asm.input_ids[i] = 0..9
    /\ MarkerAt(0, 9) /\ MarkerAt(1, 7)
    /\ MaskSum(0) = 10 /\ MaskSum(1) = 6

\* the scenario batch, assembled
C4_Witness == Assembled /\ Scenario /\ asm.width = 10

\* ------------------------------------------------------ claims on the run
\* the training function finished its set-up and the run goes on
SetupDone == pc \in {"epoch", "batch", "save", "done"}

\* modules a mode is meant to train (main's objects)
IntendedTrained(a) ==
  CASE a.train_module \in {"gpt_speaker", "gpt"} -> {"gpt"}
    [] a.train_module = "speaker" -> {}
    [] a.train_module = "autoencoder" -> {SelectedEncoder(a), SelectedDecoder(a)}
    [] a.train_module = "encoder" -> {SelectedEncoder(a)}
    [] a.train_module = "decoder" -> {SelectedDecoder(a)}

\* objects the training function of the run works with
Handled(a) ==
  IF a.train_module \in GptModes THEN MainModules
  ELSE {encoder_ref, SelectedDecoder(a)}

\* objects that play a trained role inside the training function
TrainedObjects(a) ==
  CASE a.train_module \in GptModes -> IntendedTrained(a)
    [] a.train_module = "autoencoder" -> {encoder_ref, SelectedDecoder(a)}
    [] a.train_module = "encoder" -> {encoder_ref}
    [] a.train_module = "decoder" -> {SelectedDecoder(a)}

Frozen(o) == ~modules[o].training /\ ~modules[o].requires_grad
Untouched(o) == o \notin optimizer /\ modules[o].value[2] = 0

\* C5 as stated: in every mode every module the mode does not train is in eval
\* mode with gradients disabled, outside the optimizer, and never updated.
C5_Original ==
  SetupDone =>
    \A o \in MainModules \ IntendedTrained(args) : Frozen(o) /\ Untouched(o)

\* C5 amended: every module the training function works with and the mode does
\* not train is in eval mode with gradients disabled from set-up on; every
\* module the mode does not train, worked with or not, stays outside the
\* optimizer's parameter set and its parameter values are never updated.
C5_Frozen ==
  SetupDone =>
    /\ \A o \in Handled(args) \ TrainedObjects(args) : Frozen(o)
    /\ \A o \in Objects \ (TrainedObjects(args) \cup IntendedTrained(args)) : Untouched(o)

\* a speaker-mode run that finished all its optimizer steps with gpt frozen
C5_Witness ==
  /\ pc = "done"
  /\ args.train_module = "speaker"
  /\ lr_steps = args.epochs
  /\ batch_idx = BatchesPerEpoch
  /\ Frozen("gpt")

\* C6 as stated: the logged values satisfy
\* loss = audio_loss + (text_loss if train_text) + 0.01 * mse_loss.
C6_Original ==
  (args.train_module \in GptModes /\ meters.loss # NotLogged) =>
    meters.loss * LossScale =
      (meters.audio_loss + (IF args.train_text THEN meters.text_loss ELSE 0)) * LossScale
      + meters.mse_loss

\* C7 as stated: when the table is built, an entry supplied by the archive has
\* its supplied value, and only the other speakers get a normalised random one.
C7_Original ==
  (args.train_module \in GptModes /\ pc = "epoch" /\ epoch = 0) =>
    \A s \in DOMAIN speaker_embeds :
      IF s \in DOMAIN args.archive
        THEN speaker_embeds[s].val = args.archive[s]
        ELSE speaker_embeds[s].val \in { r * SpkStat.std + SpkStat.mean : r \in RandVals }

\* C8: nothing is saved before the training function returned after all
\* requested epochs; an aborted run has saved nothing.
C8_NoEarlySave ==
  /\ (DOMAIN saved # {}) =>
        /\ pc = "done"
        /\ error = None
        /\ epoch = args.epochs
        /\ lr_steps = args.epochs
  /\ (pc \in {"load", "train", "epoch", "batch", "save", "aborted"}) => DOMAIN saved = {}

\* a run aborted by an exception at a batch after a completed epoch, nothing saved
C8_Witness ==
  /\ pc = "aborted"
  /\ error = "injected"
  /\ epoch >= 1
  /\ batch_idx >= 1
  /\ DOMAIN saved = {}

\* C9 as stated: without an injected failure every mode gets an optimizer over
\* its trainable parameters, runs exactly `epochs` epochs and reaches the save.
C9_Original ==
  /\ (pc = "aborted") => error = "injected"
  /\ SetupDone => (optimizer # Unbound /\ optimizer = train_params)
  /\ (pc \in {"save", "done"}) => epoch = args.epochs

\* C10 as stated: in modes autoencoder and encoder the encoder the optimizer
\* updates is the one main loaded and saves, so the file holds trained values.
C10_Original ==
  (pc = "done" /\ args.train_module \in {"autoencoder", "encoder"}) =>
    LET enc == SelectedEncoder(args)
    IN /\ encoder_ref = enc
       /\ enc \in optimizer
       /\ saved[enc] = modules[encoder_ref].value

RECURSIVE Repeat(_, _)
\* seq repeated n times
Repeat(seq, n) == IF n = 0 THEN <<>> ELSE seq \o Repeat(seq, n - 1)

IsPrefix(a, b) == Len(a) <= Len(b) /\ SubSeq(b, 1, Len(a)) = a

\* steps of one whole epoch when every batch runs `order`
EpochSchedule(order) == <<"reset">> \o Repeat(order, BatchesPerEpoch) \o <<"lr_step">>

\* every epoch resets the metrics first, runs `order` for each batch and then
\* advances the schedule once; the schedule has advanced once per finished epoch
EpochOrderHolds(order) ==
  /\ IsPrefix(events, EpochSchedule(order))
  /\ (pc = "batch") => Len(events) = 1 + Len(order) * batch_idx
  /\ (pc \in {"epoch", "save", "done"} /\ epoch > 0) => events = EpochSchedule(order)
  /\ lr_steps = epoch
  /\ (pc \in {"save", "done"}) => (epoch = args.epochs /\ lr_steps = args.epochs)

\* C11 as stated: per batch the order is zero gradients, forward, backward,
\* clip, optimizer step; the schedule is advanced once per epoch after the last
\* batch, `epochs` times in all.
C11_Original ==
  EpochOrderHolds(<<"zero_grad", "forward", "backward", "clip_grad_norm", "step">>)

\* C11 amended: in every epoch the metrics are reset first, then every batch
\* runs forward pass, zero gradients, backward pass, gradient-norm clip,
\* optimizer step in that order, and the learning-rate schedule is advanced
\* once per epoch after the last batch, never per batch: `epochs` times at the
\* end of training.
C11_StepOrder ==
  EpochOrderHolds(<<"forward", "zero_grad", "backward", "clip_grad_norm", "step">>)

\* a finished run of at least two epochs
C11_Witness ==
  /\ pc = "done"
  /\ args.epochs >= 2
  /\ lr_steps = args.epochs
  /\ Len(events) = 2 + 5 * BatchesPerEpoch
  /\ events[Len(events)] = "lr_step"

\* C12 as stated: in modes gpt_speaker and speaker every entry of the speaker
\* table used in training, supplied ones included, has gradients enabled (and
\* so is updated by optimizer steps); a speaker-mode run whose speakers were
\* all supplied still has a parameter with gradients enabled, so its backward
\* pass does not fail.
C12_Original ==
  (args.train_module \in {"gpt_speaker", "speaker"}) =>
    /\ SetupDone => \A s \in DOMAIN speaker_embeds : speaker_embeds[s].requires_grad
    /\ (args.train_module = "speaker" /\ DOMAIN args.archive = DatasetSpeakers /\ SetupDone)
         => \E s \in DOMAIN speaker_embeds : speaker_embeds[s].requires_grad
    /\ error # "RuntimeError"

\* positions lo..hi in order
Range(lo, hi) == [k \in 1..(IF hi >= lo THEN hi - lo + 1 ELSE 0) |-> lo + k - 1]

\* C13: the text hidden-state slice (positions 0..text_len-2) is scored against
\* the text labels at 1..text_len-1 and the audio hidden-state slice (positions
\* text_len-1..text_len+audio_len-1) against the audio labels at
\* text_len..text_len+audio_len: the slices have equal lengths, the hidden state
\* at p is scored against the label at p+1, and the final text position
\* predicts the first audio position.
C13_Alignment ==
  Assembled =>
    LET TL == batch.text_len
        AL == batch.audio_len
    IN /\ route.text_hidden = Range(0, TL - 2)
       /\ route.text_labels = Range(1, TL - 1)
       /\ route.audio_hidden = Range(TL - 1, TL + AL - 1)
       /\ route.audio_labels = Range(TL, TL + AL)
       /\ Len(route.text_hidden) = Len(route.text_labels)
       /\ Len(route.audio_hidden) = AL + 1
       /\ Len(route.audio_labels) = AL + 1
       /\ \A k \in 1..Len(route.text_hidden) :
            route.text_labels[k] = route.text_hidden[k] + 1
       /\ \A k \in 1..Len(route.audio_hidden) :
            route.audio_labels[k] = route.audio_hidden[k] + 1
       /\ route.audio_hidden[1] = TL - 1 /\ route.audio_labels[1] = TL
       /\ \A k \in 1..Len(route.audio_labels) :
            route.audio_labels[k] \in DOMAIN asm.labels[0]

\* an assembled batch with several text and audio positions, slices taken
C13_Witness ==
  /\ Assembled
  /\ batch.batch_size = 2
  /\ batch.text_len >= 3
  /\ batch.audio_len >= 2
  /\ Len(route.text_hidden) = batch.text_len - 1
  /\ Len(route.audio_hidden) = batch.audio_len + 1

====
